---- MODULE Spec2Model ----
(***************************************************************************)
(* Model of src/ssh_client.py: class SSHClient, the connection lifecycle   *)
(* (connect / disconnect / context manager), execute_command and           *)
(* upload_file.  The paramiko transport is the environment: every call the *)
(* code makes on it has its outcome drawn from the outcomes the library    *)
(* can produce.                                                            *)
(***************************************************************************)
EXTENDS Integers, Sequences, FiniteSets, TLC

\* ---------------------------------------------------------------- bounds
MaxClients == 2      \* paramiko.SSHClient objects created in one behaviour
MaxTimeout == 2      \* largest timeout argument passed to execute_command
MaxGap     == 1      \* longest silence of the remote process between events
MaxChunks  == 2      \* chunks of stdout the remote process writes
MaxErr     == 1      \* bytes of stderr the remote process writes
MaxStatus  == 1      \* largest exit status the remote process reports

\* ------------------------------------------------------- program constants
SSH_ERROR      == -1   \* return_code of the paramiko.SSHException arm
TIMEOUT_ERROR  == -2   \* return_code of the socket.timeout arm
INTERNAL_ERROR == -3   \* return_code of the catch-all arm
NO_EXIT_STATUS == -1   \* what recv_exit_status() yields when the server
                       \* closes the channel without sending a status
DEFAULT_TIMEOUT == 60  \* timeout of execute_command when none is passed
CANARY_TIMEOUT  == 10  \* timeout test_connectivity passes

Commands == {"cmd_a", "cmd_b"}
Bytes    == {"a", "bad"}            \* "bad" is a byte that is not valid UTF-8

VARIABLES
    password,       \* self.password is set (truthy)
    key_filename,   \* self.key_filename is set (truthy)
    client,         \* self.client: 0 is None, n > 0 the n-th SSHClient object
    connected,      \* self.connected
    nclients,       \* SSHClient objects constructed so far
    transportOpen,  \* the transport of self.client is open
    orphaned,       \* a transport opened through an earlier self.client is
                    \* still open
    lastLifecycle,  \* the last connect()/disconnect() call and how it ended
    inScope,        \* control is inside a `with SSHClient(...)` block
    last,           \* the last operation: what it returned or raised
    call,           \* what the transport did during the last execute_command
    result,         \* the dict returned by the last execute_command
    sftp,           \* the SFTP channel opened by the last upload_file
    info,           \* the dict returned by the last get_system_info
    results,        \* the dicts its execute_command calls returned, in order
    arg             \* SpecExec only: the arguments and the environment of the
                    \* one call the behaviour makes

vars == <<password, key_filename, client, connected, nclients, transportOpen,
          orphaned, lastLifecycle, inScope, last, call, result, sftp, info, results,
          arg>>

\* ------------------------------------------------------------ return values
NoLast == [op |-> "init", raised |-> "none", ret |-> "none", io |-> 0,
           cause |-> "none", auth |-> "none"]

NoCall == [entered |-> FALSE, command |-> "none", timeout |-> 0,
           fault |-> "none", out |-> <<>>, err |-> <<>>, captured |-> <<>>,
           status |-> 0, duration |-> 0, elapsed |-> 0, log |-> <<>>]

NoStderr == [kind |-> "remote", text |-> <<>>, secs |-> 0]

NoResult == [stdout |-> <<>>, stderr |-> NoStderr, return_code |-> 0,
             command |-> "none"]

NoInfo == <<>>

\* ---------------------------------------------------------------- connect
ConnectOutcomes == {"ok", "AuthenticationException", "SSHException",
                    "socket.error", "Exception"}

\* Credential with the two tests of lines 44-47 in the other order.
CredentialPasswordFirst(key, pw) ==
    IF pw THEN "password" ELSE IF key THEN "key_filename" ELSE "none"

\* The credential put into connect_kwargs, or "none" when the ValueError of
\* line 49 is raised instead.
Credential(key, pw) ==
    IF key THEN "key_filename" ELSE IF pw THEN "password" ELSE "none"

\* ConnectStep with the credential check made after the transport's connect.
ConnectStepLateCheck(key, pw, conn, outcome) ==
    LET cred == IF key THEN "key_filename" ELSE IF pw THEN "password"
                ELSE "none" IN
    IF outcome = "ok" /\ cred # "none"
    THEN [connected |-> TRUE, ret |-> "True", io |-> 1, auth |-> cred,
          cause |-> "none"]
    ELSE [connected |-> conn, ret |-> "False", io |-> 1, auth |-> cred,
          cause |-> IF outcome = "ok" THEN "ValueError" ELSE outcome]

\* The body of connect() after self.client has been replaced: the new value
\* of self.connected, the value returned, the number of calls made on the
\* transport, the credential offered and the cause logged.
ConnectStep(key, pw, conn, outcome) ==
    LET cred == Credential(key, pw) IN
    IF cred = "none"
    THEN [connected |-> conn, ret |-> "False", io |-> 0, auth |-> "none",
          cause |-> "ValueError"]
    ELSE IF outcome = "ok"
    THEN [connected |-> TRUE, ret |-> "True", io |-> 1, auth |-> cred,
          cause |-> "none"]
    ELSE [connected |-> conn, ret |-> "False", io |-> 1, auth |-> cred,
          cause |-> outcome]

\* The assignments of connect() for one outcome of self.client.connect().
\* Line 32 replaces self.client without closing it: the transport of the old
\* client, when open, stays open unless the collection of the old client
\* closes it.
ConnectBody(outcome) ==
    LET s == ConnectStep(key_filename, password, connected, outcome) IN
    /\ client' = nclients + 1
    /\ nclients' = nclients + 1
    /\ connected' = s.connected
    /\ transportOpen' = (s.ret = "True")
    /\ orphaned' \in IF transportOpen THEN {orphaned, TRUE} ELSE {orphaned}
    /\ lastLifecycle' = IF s.ret = "True" THEN "connect_ok"
                        ELSE "connect_failed"
    /\ call' = NoCall /\ result' = NoResult /\ sftp' = "none"
    /\ info' = NoInfo /\ results' = <<>>
    /\ UNCHANGED <<password, key_filename, arg>>

connect ==
    /\ nclients < MaxClients
    /\ \E outcome \in ConnectOutcomes :
         LET s == ConnectStep(key_filename, password, connected, outcome) IN
         /\ ConnectBody(outcome)
         /\ last' = [op |-> "connect", raised |-> "none", ret |-> s.ret,
                     io |-> s.io, cause |-> s.cause, auth |-> s.auth]
    /\ UNCHANGED inScope

\* ------------------------------------------------------------- disconnect
\* disconnect(): closeOk says whether self.client.close() returns or raises.
DisconnectStep(cl, conn, closeOk) ==
    IF cl = 0
    THEN [connected |-> conn, io |-> 0, cause |-> "none"]
    ELSE IF closeOk
    THEN [connected |-> FALSE, io |-> 1, cause |-> "none"]
    ELSE [connected |-> conn, io |-> 1, cause |-> "close_error"]

\* The assignments of disconnect().  A close() that returns has closed the
\* transport; one that raises may or may not have.
DisconnectBody(closeOk) ==
    /\ connected' = DisconnectStep(client, connected, closeOk).connected
    /\ transportOpen' \in IF client = 0 THEN {transportOpen}
                          ELSE IF closeOk THEN {FALSE}
                          ELSE {transportOpen, FALSE}
    /\ lastLifecycle' = "disconnected"
    /\ call' = NoCall /\ result' = NoResult /\ sftp' = "none"
    /\ info' = NoInfo /\ results' = <<>>
    /\ UNCHANGED <<password, key_filename, client, nclients, orphaned, arg>>

disconnect ==
    /\ \E closeOk \in BOOLEAN :
         LET s == DisconnectStep(client, connected, closeOk) IN
         /\ DisconnectBody(closeOk)
         /\ last' = [op |-> "disconnect", raised |-> "none", ret |-> "none",
                     io |-> s.io, cause |-> s.cause, auth |-> "none"]
    /\ UNCHANGED inScope

\* -------------------------------------------------------- context manager
\* __enter__: connect(), RuntimeError when it returned False.
EnterRaised(ret) == IF ret = "True" THEN "none" ELSE "RuntimeError"

enter ==
    /\ ~inScope
    /\ nclients < MaxClients
    /\ \E outcome \in ConnectOutcomes :
         LET s == ConnectStep(key_filename, password, connected, outcome) IN
         /\ ConnectBody(outcome)
         /\ last' = [op |-> "enter", raised |-> EnterRaised(s.ret),
                     ret |-> IF s.ret = "True" THEN "self" ELSE "none",
                     io |-> s.io, cause |-> s.cause, auth |-> s.auth]
         /\ inScope' = (s.ret = "True")

\* __exit__: the block was left, normally or by an error (bodyRaised); the
\* method returns None, so an error of the block propagates after it.
exit ==
    /\ inScope
    /\ \E closeOk \in BOOLEAN, bodyRaised \in BOOLEAN :
         LET s == DisconnectStep(client, connected, closeOk) IN
         /\ DisconnectBody(closeOk)
         /\ last' = [op |-> "exit",
                     raised |-> IF bodyRaised THEN "body_error" ELSE "none",
                     ret |-> "none", io |-> s.io, cause |-> s.cause,
                     auth |-> "none"]
    /\ inScope' = FALSE

\* ---------------------------------------------------------- execute_command
\* bytes.decode('utf-8', errors='ignore'): undecodable bytes are dropped.
RECURSIVE Decode(_)
Decode(bs) ==
    IF bs = <<>> THEN <<>>
    ELSE IF Head(bs) = "bad" THEN Decode(Tail(bs))
    ELSE <<Head(bs)>> \o Decode(Tail(bs))

RECURSIVE SumSeq(_)
SumSeq(s) == IF s = <<>> THEN 0 ELSE Head(s) + SumSeq(Tail(s))

\* What the remote side and the transport do during one execute_command:
\*   out, gaps  the process writes Len(out) chunks of stdout; gaps[i] is the
\*              silence before chunk i, gaps[Len(out)+1] the silence before
\*              it exits and the channel reports end of file;
\*   err        what it wrote to stderr;
\*   status     what recv_exit_status() reports once the channel is closed;
\*   fault      an exception the transport raises by itself: stage "exec" in
\*              exec_command, "stdout" in stdout.read() after `after` chunks
\*              were received, "stderr" in stderr.read().
NoFault == [stage |-> "none", kind |-> "none", after |-> 0]

Faults(n) ==
    {NoFault}
    \cup [stage : {"exec", "stderr"}, kind : {"SSHException", "Exception"},
          after : {0}]
    \cup [stage : {"stdout"}, kind : {"SSHException", "Exception"},
          after : 0..n]

GapSeqs(n) == [1..n -> 0..MaxGap]

\* After a fault nothing more of the remote side is observed, so the parts
\* of an environment that lie behind its fault are left at their defaults.
Observable(env) ==
    /\ env.fault.stage = "exec" =>
         env.out = <<>> /\ env.gaps = <<0>>
    /\ env.fault.stage # "none" => env.err = <<>> /\ env.status = 0

\* The environments whose process writes at most maxn chunks of stdout and
\* maxerr bytes of stderr.
EnvironmentsOf(maxn, maxerr) ==
    UNION { { env \in [out : [1..n -> Bytes], gaps : GapSeqs(n + 1),
                       err : UNION {[1..m -> Bytes] : m \in 0..maxerr},
                       status : {NO_EXIT_STATUS} \cup 0..MaxStatus,
                       fault : Faults(n)] : Observable(env) }
            : n \in 0..maxn }

Environments == EnvironmentsOf(MaxChunks, MaxErr)

\* The environments of a command that prints nothing.
SilentEnvironments == EnvironmentsOf(0, 0)

NoArg == [op |-> "none", command |-> "none", timeout |-> 0,
          env |-> [out |-> <<>>, gaps |-> <<0>>, err |-> <<>>, status |-> 0,
                   fault |-> NoFault]]

\* stdout.read() on a channel whose timeout was set to t by exec_command:
\* the read blocks until end of file; every wait for the next event is
\* bounded by t and raises socket.timeout when nothing arrives in time.
\* i is the event waited for, elapsed the time spent so far.
RECURSIVE ReadStdout(_, _, _, _)
ReadStdout(env, t, i, elapsed) ==
    IF env.fault.stage = "stdout" /\ env.fault.after = i - 1
    THEN [fault |-> env.fault.kind, captured |-> SubSeq(env.out, 1, i - 1),
          elapsed |-> elapsed]
    ELSE IF env.gaps[i] >= t
    THEN [fault |-> "socket.timeout", captured |-> SubSeq(env.out, 1, i - 1),
          elapsed |-> elapsed + t]
    ELSE IF i = Len(env.out) + 1
    THEN [fault |-> "none", captured |-> env.out,
          elapsed |-> elapsed + env.gaps[i]]
    ELSE ReadStdout(env, t, i + 1, elapsed + env.gaps[i])

\* Lines 79-88: the exception raised inside the try block ("none" when it
\* runs to line 88), the stdout received by then and the time spent.
TryBlock(env, t) ==
    IF env.fault.stage = "exec"
    THEN [fault |-> env.fault.kind, captured |-> <<>>, elapsed |-> 0]
    ELSE LET r == ReadStdout(env, t, 1, 0) IN
         IF r.fault # "none" THEN r
         ELSE IF env.fault.stage = "stderr"
         THEN [r EXCEPT !.fault = env.fault.kind]
         ELSE r

\* ResultOf with the two streams of the normal path taken from the wrong
\* file objects.
ResultOfSwapped(command, t, env, fault) ==
    IF fault = "none"
    THEN [stdout |-> Decode(env.err),
          stderr |-> [kind |-> "remote", text |-> Decode(env.out), secs |-> 0],
          return_code |-> env.status, command |-> command]
    ELSE [stdout |-> <<>>,
          stderr |-> IF fault = "socket.timeout"
                     THEN [kind |-> "timed out", text |-> <<>>, secs |-> t]
                     ELSE [kind |-> "str(e)", text |-> <<fault>>, secs |-> 0],
          return_code |-> IF fault = "SSHException" THEN SSH_ERROR
                          ELSE IF fault = "socket.timeout" THEN TIMEOUT_ERROR
                          ELSE INTERNAL_ERROR,
          command |-> command]

\* The dict built on each path of execute_command.
ResultOf(command, t, env, fault) ==
    IF fault = "none"
    THEN [stdout |-> Decode(env.out),
          stderr |-> [kind |-> "remote", text |-> Decode(env.err), secs |-> 0],
          return_code |-> env.status, command |-> command]
    ELSE IF fault = "SSHException"
    THEN [stdout |-> <<>>,
          stderr |-> [kind |-> "str(e)", text |-> <<fault>>, secs |-> 0],
          return_code |-> SSH_ERROR, command |-> command]
    ELSE IF fault = "socket.timeout"
    THEN [stdout |-> <<>>,
          stderr |-> [kind |-> "timed out", text |-> <<>>, secs |-> t],
          return_code |-> TIMEOUT_ERROR, command |-> command]
    ELSE [stdout |-> <<>>,
          stderr |-> [kind |-> "str(e)", text |-> <<fault>>, secs |-> 0],
          return_code |-> INTERNAL_ERROR, command |-> command]

\* The guard of lines 72-73.
NotConnectedGuard(conn, cl) == ~conn \/ cl = 0

\* What execute_command hands to self.logger, in order: the debug line
\* before exec_command, then either the two debug lines of the normal path
\* (return code, preview of the first 10 lines of stdout) or the error line
\* of the except arm taken.
LogOf(fault) ==
    <<"debug: Executing command">>
    \o CASE fault = "none" ->
              <<"debug: Command completed with return code",
                "debug: Command output (first 10 lines)">>
         [] fault = "SSHException" -> <<"error: SSH execution error">>
         [] fault = "socket.timeout" -> <<"error: Command timed out">>
         [] OTHER -> <<"error: Unexpected execution error">>

PreviewLogged ==
    \E i \in 1..Len(call.log) :
        call.log[i] = "debug: Command output (first 10 lines)"

\* ExecStep that calls exec_command a second time after an SSHException.
ExecStepRetry(conn, cl, command, t, env) ==
    IF NotConnectedGuard(conn, cl)
    THEN [raised |-> "RuntimeError", ret |-> "none", io |-> 0,
          call |-> NoCall, result |-> NoResult]
    ELSE LET r == TryBlock(env, t) IN
         [raised |-> "none", ret |-> "result",
          io |-> IF r.fault = "SSHException" THEN 2 ELSE 1,
          call |-> [entered |-> TRUE, command |-> command, timeout |-> t,
                    fault |-> r.fault, out |-> env.out, err |-> env.err,
                    captured |-> r.captured, status |-> env.status,
                    duration |-> SumSeq(env.gaps), elapsed |-> r.elapsed,
                    log |-> LogOf(r.fault)],
          result |-> ResultOf(command, t, env, r.fault)]

\* ExecStep without the catch-all arm of line 118: an exception that is
\* neither SSHException nor socket.timeout leaves the call.
ExecStepNoCatchAll(conn, cl, command, t, env) ==
    IF ~conn \/ cl = 0
    THEN [raised |-> "RuntimeError", ret |-> "none", io |-> 0,
          call |-> NoCall, result |-> NoResult]
    ELSE LET r == TryBlock(env, t)
             escapes == r.fault \notin {"none", "SSHException",
                                        "socket.timeout"}
         IN
         [raised |-> IF escapes THEN r.fault ELSE "none",
          ret |-> IF escapes THEN "none" ELSE "result", io |-> 1,
          call |-> [entered |-> TRUE, command |-> command, timeout |-> t,
                    fault |-> r.fault, out |-> env.out, err |-> env.err,
                    captured |-> r.captured, status |-> env.status,
                    duration |-> SumSeq(env.gaps), elapsed |-> r.elapsed,
                    log |-> LogOf(r.fault)],
          result |-> IF escapes THEN NoResult
                     ELSE ResultOf(command, t, env, r.fault)]

\* execute_command(command, timeout=t) against environment env.
ExecStep(conn, cl, command, t, env) ==
    IF NotConnectedGuard(conn, cl)
    THEN [raised |-> "RuntimeError", ret |-> "none", io |-> 0,
          call |-> NoCall, result |-> NoResult]
    ELSE LET r == TryBlock(env, t) IN
         [raised |-> "none", ret |-> "result", io |-> 1,
          call |-> [entered |-> TRUE, command |-> command, timeout |-> t,
                    fault |-> r.fault, out |-> env.out, err |-> env.err,
                    captured |-> r.captured, status |-> env.status,
                    duration |-> SumSeq(env.gaps), elapsed |-> r.elapsed,
                    log |-> LogOf(r.fault)],
          result |-> ResultOf(command, t, env, r.fault)]

\* Execute that clears self.connected when the transport failed.
ExecuteMarksDropped(command, t, env) ==
    \E s \in {ExecStep(connected, client, command, t, env)} :
    /\ (~transportOpen /\ ~NotConnectedGuard(connected, client)) =>
         env.fault.stage = "exec"
    /\ last' = [op |-> "execute", raised |-> s.raised, ret |-> s.ret,
                io |-> s.io, cause |-> "none", auth |-> "none"]
    /\ call' = s.call
    /\ result' = s.result
    /\ sftp' = "none"
    /\ info' = NoInfo /\ results' = <<>>
    /\ connected' = IF s.call.fault = "SSHException" THEN FALSE ELSE connected
    /\ UNCHANGED <<password, key_filename, client, nclients,
                   transportOpen, orphaned, lastLifecycle, inScope, arg>>

\* On a client whose transport is not open exec_command can only raise.
Execute(command, t, env) ==
    \E s \in {ExecStep(connected, client, command, t, env)} :
    /\ (~transportOpen /\ ~NotConnectedGuard(connected, client)) =>
         env.fault.stage = "exec"
    /\ last' = [op |-> "execute", raised |-> s.raised, ret |-> s.ret,
                io |-> s.io, cause |-> "none", auth |-> "none"]
    /\ call' = s.call
    /\ result' = s.result
    /\ sftp' = "none"
    /\ info' = NoInfo /\ results' = <<>>
    /\ UNCHANGED <<password, key_filename, client, connected, nclients,
                   transportOpen, orphaned, lastLifecycle, inScope, arg>>

\* Spec: any number of calls, of commands that print nothing.
execute_command ==
    \E command \in Commands, t \in 1..MaxTimeout, env \in SilentEnvironments :
        Execute(command, t, env)

\* ------------------------------------------------------------------ probes
\* The environments of the commands the probes run: output over `tokens`,
\* no stderr (the channel has a pty), and a process that either answers at
\* once or is silent for the length t of the timeout before each event.
ProbeEnvironments(tokens, t, maxn) ==
    UNION { { env \in [out : [1..n -> tokens], gaps : [1..(n + 1) -> {0, t}],
                       err : {<<>>},
                       status : {NO_EXIT_STATUS} \cup 0..MaxStatus,
                       fault : Faults(n)] : Observable(env) }
            : n \in 0..maxn }

\* test_connectivity: echo "connectivity_test" with timeout=10.
CanaryCommand == "echo connectivity_test"
Marker == "connectivity_test"

CanaryEnvironments == ProbeEnvironments(Bytes \cup {Marker}, CANARY_TIMEOUT,
                                        MaxChunks)

\* 'connectivity_test' in result['stdout']
Contains(text, token) == \E i \in 1..Len(text) : text[i] = token

\* TestStep without the try/except of lines 176-180.
TestStepNoExcept(conn, cl, env) ==
    LET s == ExecStep(conn, cl, CanaryCommand, CANARY_TIMEOUT, env) IN
    [raised |-> s.raised,
     ret |-> IF s.raised # "none" THEN "none"
             ELSE IF s.result.return_code = 0
                     /\ Contains(s.result.stdout, Marker)
             THEN "True" ELSE "False",
     io |-> s.io, call |-> s.call, result |-> s.result]

\* test_connectivity() against environment env.
TestStep(conn, cl, env) ==
    LET s == ExecStep(conn, cl, CanaryCommand, CANARY_TIMEOUT, env) IN
    [raised |-> "none",
     ret |-> IF s.raised # "none" THEN "False"
             ELSE IF s.result.return_code = 0
                     /\ Contains(s.result.stdout, Marker)
             THEN "True" ELSE "False",
     io |-> s.io, call |-> s.call, result |-> s.result]

TestConnectivity(env) ==
    \E s \in {TestStep(connected, client, env)} :
    /\ (~transportOpen /\ ~NotConnectedGuard(connected, client)) =>
         env.fault.stage = "exec"
    /\ last' = [op |-> "test_connectivity", raised |-> s.raised,
                ret |-> s.ret, io |-> s.io, cause |-> "none", auth |-> "none"]
    /\ call' = s.call
    /\ result' = s.result
    /\ sftp' = "none"
    /\ info' = NoInfo /\ results' = <<>>
    /\ UNCHANGED <<password, key_filename, client, connected, nclients,
                   transportOpen, orphaned, lastLifecycle, inScope, arg>>

\* Spec: the canary answers at once or not at all.
test_connectivity ==
    \E env \in ProbeEnvironments({Marker}, CANARY_TIMEOUT, 1) :
        /\ env.fault.stage \in {"none", "exec"}
        /\ TestConnectivity(env)

\* file_exists: test -f remote_path with the default timeout.
FileCommand == "test -f remote_path"

FileEnvironments == ProbeEnvironments(Bytes, DEFAULT_TIMEOUT, 1)

\* FileStep that takes every result that is not a sentinel for "exists".
FileStepNonNegative(conn, cl, env) ==
    LET s == ExecStep(conn, cl, FileCommand, DEFAULT_TIMEOUT, env) IN
    [raised |-> s.raised,
     ret |-> IF s.raised # "none" THEN "none"
             ELSE IF s.result.return_code >= 0 THEN "True" ELSE "False",
     io |-> s.io, call |-> s.call, result |-> s.result]

\* file_exists(remote_path) against environment env.
FileStep(conn, cl, env) ==
    LET s == ExecStep(conn, cl, FileCommand, DEFAULT_TIMEOUT, env) IN
    [raised |-> s.raised,
     ret |-> IF s.raised # "none" THEN "none"
             ELSE IF s.result.return_code = 0 THEN "True" ELSE "False",
     io |-> s.io, call |-> s.call, result |-> s.result]

FileExists(env) ==
    \E s \in {FileStep(connected, client, env)} :
    /\ (~transportOpen /\ ~NotConnectedGuard(connected, client)) =>
         env.fault.stage = "exec"
    /\ last' = [op |-> "file_exists", raised |-> s.raised,
                ret |-> s.ret, io |-> s.io, cause |-> "none", auth |-> "none"]
    /\ call' = s.call
    /\ result' = s.result
    /\ sftp' = "none"
    /\ info' = NoInfo /\ results' = <<>>
    /\ UNCHANGED <<password, key_filename, client, connected, nclients,
                   transportOpen, orphaned, lastLifecycle, inScope, arg>>

\* Spec: test prints nothing.
file_exists ==
    \E env \in ProbeEnvironments(Bytes, DEFAULT_TIMEOUT, 0) :
        FileExists(env)

\* ---------------------------------------------------------- get_system_info
\* The commands dict, in insertion order.
InfoKeys == <<"hostname", "kernel", "os", "architecture", "uptime", "whoami",
              "id", "pwd">>

InfoCommands ==
    [hostname |-> "hostname", kernel |-> "uname -r",
     os |-> "cat /etc/os-release | grep PRETTY_NAME | cut -d= -f2 | tr -d",
     architecture |-> "uname -m", uptime |-> "uptime", whoami |-> "whoami",
     id |-> "id", pwd |-> "pwd"]

Unknown == <<"Unknown">>

\* str.strip(): leading and trailing whitespace is removed.
Whitespace == {" ", "\n"}

Strip(text) ==
    LET keep == {i \in 1..Len(text) : text[i] \notin Whitespace} IN
    IF keep = {} THEN <<>>
    ELSE SubSeq(text, CHOOSE i \in keep : \A j \in keep : i <= j,
                      CHOOSE i \in keep : \A j \in keep : j <= i)

\* What one of the eight commands meets: it prints a line and exits with
\* status 0 or 1, or is silent for the length of the timeout; or the
\* transport has failed and every exec_command raises.
InfoOutput == <<" ", "a", " ", "bad", "a", "\n">>

InfoEnv(out, stall, status, fault) ==
    [out |-> out, gaps |-> [i \in 1..(Len(out) + 1) |->
                               IF i = 1 THEN stall ELSE 0],
     err |-> <<>>, status |-> status, fault |-> fault]

InfoDropped ==
    InfoEnv(<<>>, 0, 0, [stage |-> "exec", kind |-> "SSHException",
                         after |-> 0])

InfoEnvironments ==
    { InfoEnv(InfoOutput, 0, 0, NoFault),
      InfoEnv(InfoOutput, 0, 1, NoFault),
      InfoEnv(<<>>, DEFAULT_TIMEOUT, 0, NoFault) }

AllDropped == [i \in 1..Len(InfoKeys) |-> InfoDropped]

\* InfoValue that substitutes 'Unknown' for the sentinels only.
InfoValueSentinelsOnly(r) ==
    IF r.return_code >= 0 THEN Strip(r.stdout) ELSE Unknown

\* Lines 167-170: the value stored for one key.
InfoValue(r) ==
    IF r.return_code = 0 THEN Strip(r.stdout) ELSE Unknown

\* The loop of lines 166-170 from its i-th key on: the results of its
\* execute_command calls, in order.
RECURSIVE InfoLoop(_, _, _, _)
InfoLoop(conn, cl, envs, i) ==
    IF i > Len(InfoKeys) THEN <<>>
    ELSE <<ExecStep(conn, cl, InfoCommands[InfoKeys[i]], DEFAULT_TIMEOUT,
                    envs[i])>>
         \o InfoLoop(conn, cl, envs, i + 1)

\* Lines 152 and 172: what get_system_info returns or raises, given the
\* outcomes s of its execute_command calls.
InfoReturn(s) ==
    LET n == Len(InfoKeys) IN
    IF s[1].raised # "none"
    THEN [raised |-> s[1].raised, ret |-> "none", io |-> 0,
          info |-> NoInfo, results |-> <<>>]
    ELSE [raised |-> "none", ret |-> "info",
          io |-> SumSeq([i \in 1..n |-> s[i].io]),
          info |-> [k \in {InfoKeys[i] : i \in 1..n} |->
                       InfoValue(s[CHOOSE i \in 1..n : InfoKeys[i] = k]
                                   .result)],
          results |-> [i \in 1..n |-> s[i].result]]

\* get_system_info() against the environments envs[i] of its commands.
InfoStep(conn, cl, envs) == InfoReturn(InfoLoop(conn, cl, envs, 1))

GetSystemInfo(envs) ==
    \E s \in {InfoStep(connected, client, envs)} :
    /\ (~transportOpen /\ ~NotConnectedGuard(connected, client)) =>
         \A i \in DOMAIN envs : envs[i].fault.stage = "exec"
    /\ last' = [op |-> "get_system_info", raised |-> s.raised,
                ret |-> s.ret, io |-> s.io, cause |-> "none", auth |-> "none"]
    /\ info' = s.info
    /\ results' = s.results
    /\ call' = NoCall /\ result' = NoResult /\ sftp' = "none"
    /\ UNCHANGED <<password, key_filename, client, connected, nclients,
                   transportOpen, orphaned, lastLifecycle, inScope, arg>>

\* Spec: the eight commands meet the same environment.
get_system_info ==
    \E env \in InfoEnvironments \cup {InfoDropped} :
        GetSystemInfo([i \in 1..Len(InfoKeys) |-> env])

\* -------------------------------------------------------------- upload_file
\* What the SFTP layer does: open_sftp() raises, put() raises, or both and
\* close() return.
UploadOutcomes == {"ok", "open_sftp_error", "put_error"}

\* upload_file(local_path, remote_path): what crosses the call boundary and
\* the state in which the channel the call opened is left.
\* UploadStep with the failure logged and turned into a False return value,
\* the way connect() treats its failures.
UploadStepSwallows(conn, cl, outcome) ==
    IF ~conn \/ cl = 0
    THEN [raised |-> "RuntimeError", ret |-> "none", io |-> 0,
          sftp |-> "none", cause |-> "none"]
    ELSE IF outcome = "ok"
    THEN [raised |-> "none", ret |-> "True", io |-> 3, sftp |-> "closed",
          cause |-> "none"]
    ELSE [raised |-> "none", ret |-> "False",
          io |-> IF outcome = "put_error" THEN 2 ELSE 1,
          sftp |-> IF outcome = "put_error" THEN "open" ELSE "none",
          cause |-> outcome]

\* cause is the call of the SFTP layer that failed, "none" when none did.
UploadStep(conn, cl, outcome) ==
    IF NotConnectedGuard(conn, cl)
    THEN [raised |-> "RuntimeError", ret |-> "none", io |-> 0,
          sftp |-> "none", cause |-> "none"]
    ELSE IF outcome = "open_sftp_error"
    THEN [raised |-> "Exception", ret |-> "none", io |-> 1, sftp |-> "none",
          cause |-> outcome]
    ELSE IF outcome = "put_error"
    THEN [raised |-> "Exception", ret |-> "none", io |-> 2, sftp |-> "open",
          cause |-> outcome]
    ELSE [raised |-> "none", ret |-> "True", io |-> 3, sftp |-> "closed",
          cause |-> "none"]

\* On a client whose transport is not open open_sftp can only raise.
upload_file ==
    /\ \E outcome \in UploadOutcomes :
         LET s == UploadStep(connected, client, outcome) IN
         /\ ~transportOpen => outcome = "open_sftp_error"
         /\ last' = [op |-> "upload", raised |-> s.raised, ret |-> s.ret,
                     io |-> s.io, cause |-> s.cause, auth |-> "none"]
         /\ sftp' = s.sftp
    /\ call' = NoCall /\ result' = NoResult
    /\ info' = NoInfo /\ results' = <<>>
    /\ UNCHANGED <<password, key_filename, client, connected, nclients,
                   transportOpen, orphaned, lastLifecycle, inScope, arg>>

\* ------------------------------------------------------------------- spec
Init ==
    /\ password \in BOOLEAN
    /\ key_filename \in BOOLEAN
    /\ client = 0
    /\ connected = FALSE
    /\ nclients = 0
    /\ transportOpen = FALSE
    /\ orphaned = FALSE
    /\ lastLifecycle = "never"
    /\ inScope = FALSE
    /\ last = NoLast
    /\ call = NoCall
    /\ result = NoResult
    /\ sftp = "none"
    /\ info = NoInfo
    /\ results = <<>>
    /\ arg = NoArg

Next ==
    \/ connect
    \/ disconnect
    \/ execute_command
    \/ upload_file
    \/ test_connectivity
    \/ file_exists
    \/ get_system_info
    \/ enter
    \/ exit

Spec == Init /\ [][Next]_vars

\* ---------------------------------------------------------------- SpecExec
\* execute_command reads self.connected and self.client and writes nothing of
\* the object, so what one call returns is a function of the object state it
\* is made in, its arguments and the environment.  SpecExec draws all three
\* in its initial state and makes the call once, which lets the environment
\* range over processes that write up to MaxChunks chunks.

\* The object states Spec reaches (ObjectReachable is an invariant of Spec).
ReachableObject(cl, n, conn, open, ll, key, pw, scoped) ==
    /\ cl \in 0..MaxClients /\ n = cl
    /\ open => conn
    /\ ll = "connect_ok" => open
    /\ ll = "connect_failed" => ~open
    /\ cl = 0 => ~conn /\ ~scoped /\ ll \in {"never", "disconnected"}
    /\ cl > 0 => ll \in {"connect_ok", "connect_failed", "disconnected"}
    /\ Credential(key, pw) = "none" => ~conn /\ ~scoped
    /\ ll = "connect_ok" => conn
    /\ cl = 1 /\ (conn \/ scoped) => ll # "connect_failed"

ObjectReachable ==
    ReachableObject(client, nclients, connected, transportOpen,
                    lastLifecycle, key_filename, password, inScope)

\* The object states the call is made in, each with the calls that lead to
\* it from construction with a key file.
ObjectState(cl, conn, open, ll) ==
    [client |-> cl, connected |-> conn, transportOpen |-> open,
     lastLifecycle |-> ll]

ObjectStates ==
    { ObjectState(0, FALSE, FALSE, "never"),          \* no call
      ObjectState(1, FALSE, FALSE, "connect_failed"), \* connect fails
      ObjectState(1, TRUE, TRUE, "connect_ok"),       \* connect succeeds
      ObjectState(1, FALSE, FALSE, "disconnected"),   \* ..., disconnect
      ObjectState(1, TRUE, TRUE, "disconnected"),     \* ..., close() raises
      ObjectState(1, TRUE, FALSE, "disconnected"),    \* ..., close() raises
      ObjectState(2, TRUE, FALSE, "connect_failed") } \* ..., connect fails

\* The calls SpecExec makes: execute_command with any arguments, and the
\* two probes with the command and the timeout they pass.
CallArgs ==
    [op : {"execute"}, command : Commands, timeout : 1..MaxTimeout,
     env : Environments]
    \cup [op : {"test_connectivity"}, command : {CanaryCommand},
          timeout : {CANARY_TIMEOUT}, env : CanaryEnvironments]
    \cup [op : {"file_exists"}, command : {FileCommand},
          timeout : {DEFAULT_TIMEOUT}, env : FileEnvironments]
    \cup [op : {"get_system_info"}, command : {"none"},
          timeout : {DEFAULT_TIMEOUT},
          env : [1..Len(InfoKeys) -> InfoEnvironments] \cup {AllDropped}]

\* The environment is drawn as far as the call can observe it: a call the
\* guard rejects observes nothing, and on a client whose transport is not
\* open exec_command can only raise.
Observed(env, quiet) ==
    /\ NotConnectedGuard(connected, client) => env = quiet
    /\ ~transportOpen /\ ~NotConnectedGuard(connected, client) =>
         env.fault.stage = "exec"

QuietEnvironment == NoArg.env

ExecInit ==
    /\ password = FALSE
    /\ key_filename = TRUE
    /\ \E o \in ObjectStates :
         /\ client = o.client
         /\ nclients = o.client
         /\ connected = o.connected
         /\ transportOpen = o.transportOpen
         /\ orphaned = FALSE
         /\ lastLifecycle = o.lastLifecycle
    /\ inScope = FALSE
    /\ last = NoLast
    /\ call = NoCall
    /\ result = NoResult
    /\ sftp = "none"
    /\ info = NoInfo
    /\ results = <<>>
    /\ arg \in CallArgs
    /\ IF arg.op = "get_system_info"
       THEN \A i \in DOMAIN arg.env : Observed(arg.env[i], InfoDropped)
       ELSE Observed(arg.env, QuietEnvironment)

ExecuteArg ==
    /\ last.op = "init" /\ arg.op = "execute"
    /\ Execute(arg.command, arg.timeout, arg.env)

test_connectivityArg ==
    /\ last.op = "init" /\ arg.op = "test_connectivity"
    /\ TestConnectivity(arg.env)

file_existsArg ==
    /\ last.op = "init" /\ arg.op = "file_exists"
    /\ FileExists(arg.env)

get_system_infoArg ==
    /\ last.op = "init" /\ arg.op = "get_system_info"
    /\ GetSystemInfo(arg.env)

NextExec ==
    \/ ExecuteArg
    \/ test_connectivityArg
    \/ file_existsArg
    \/ get_system_infoArg

SpecExec == ExecInit /\ [][NextExec]_vars

\* ------------------------------------------------------------------ claims
\* The session state of the specification, read off the lifecycle calls made:
\* Connected after a connect() that succeeded, Failed after one that failed,
\* Disconnected before any connect() and after disconnect().
SessionConnected == lastLifecycle = "connect_ok"

Executed == last.op = "execute" /\ call.entered

\* C1: whenever the session is not Connected (never connected, last
\* connect() failed, or disconnect() was called), execute fails with
\* NotConnected and makes no call on the transport.
C1_NotConnectedRejected ==
    (last.op = "execute" /\ ~SessionConnected) =>
        (last.raised = "RuntimeError" /\ last.io = 0)

\* C2: disconnect() in any state never raises and leaves the session
\* Disconnected, also when closing the transport reports an error.
C2_DisconnectLeavesDisconnected ==
    last.op = "disconnect" => (last.raised = "none" /\ ~connected)

\* C3: a connect() that succeeds leaves the session Connected and a connect()
\* that fails leaves it not Connected, also when the session was Connected
\* before the call.
C3_ConnectSetsState ==
    last.op = "connect" =>
        /\ last.ret = "True" => connected
        /\ last.ret = "False" => ~connected

\* C4: on a Connected session execute never raises; a transport error, a
\* timeout and any other failure come back as a result with exit code -1, -2
\* and -3 and a diagnostic in stderr.
C4_ExecuteNeverRaises ==
    (last.op = "execute" /\ SessionConnected) =>
        /\ call.entered
        /\ last.raised = "none" /\ last.ret = "result"
        /\ call.fault = "SSHException" =>
             result.return_code = -1 /\ result.stderr.kind = "str(e)"
        /\ call.fault = "socket.timeout" =>
             /\ result.return_code = -2
             /\ result.stderr.kind = "timed out"
        /\ call.fault \notin {"none", "SSHException", "socket.timeout"} =>
             result.return_code = -3 /\ result.stderr.kind = "str(e)"

C4_Witness ==
    /\ last.op = "execute" /\ SessionConnected
    /\ arg.env.fault.kind = "Exception"
    /\ call.fault = "Exception"
    /\ result.return_code = -3

\* C5: a command whose process runs longer than the timeout t returns within
\* t with exit code -2 and a timeout text in stderr, whether or not the
\* process keeps writing output.  (The process is one that ends by reporting
\* an exit status, and the transport raises nothing by itself.)
C5_TimeoutBoundsWallClock ==
    (Executed /\ arg.env.fault = NoFault /\ arg.env.status \in 0..255
        /\ SumSeq(arg.env.gaps) > arg.timeout) =>
        /\ call.elapsed <= arg.timeout
        /\ result.return_code = -2
        /\ result.stderr.kind = "timed out"

\* C6: when the transport fails after some stdout was read, the result has
\* exit code -1, a diagnostic in stderr and the stdout captured before the
\* failure.
C6_PartialStdoutKept ==
    (Executed /\ call.fault = "SSHException" /\ call.captured # <<>>) =>
        /\ result.return_code = -1
        /\ result.stderr.kind = "str(e)"
        /\ result.stdout = SelectSeq(call.captured, LAMBDA b : b # "bad")

\* C7: when the process exits with a status in 0..255 and no fault occurs,
\* the result carries that status, the whole of stdout and stderr, and the
\* command passed.
C7_NormalCompletion ==
    (Executed /\ call.fault = "none" /\ arg.env.status \in 0..255) =>
        /\ result.return_code = arg.env.status
        /\ result.stdout = SelectSeq(arg.env.out, LAMBDA b : b # "bad")
        /\ result.stderr.kind = "remote"
        /\ result.stderr.text = SelectSeq(arg.env.err, LAMBDA b : b # "bad")
        /\ result.command = arg.command

C7_Witness ==
    /\ Executed /\ call.fault = "none"
    /\ arg.env.status = 1 /\ result.return_code = 1
    /\ arg.env.out = <<"bad", "a">> /\ result.stdout = <<"a">>
    /\ arg.env.err = <<"a">>
    /\ SumSeq(arg.env.gaps) > 0

\* C8: a result has exit code >= 0 only if the process reported that status
\* and < 0 only if the client determined the outcome; the normal path never
\* yields a negative exit code.
C8_SignOfExitCode ==
    Executed =>
        /\ result.return_code >= 0 =>
             call.fault = "none" /\ arg.env.status = result.return_code
        /\ result.return_code < 0 => call.fault # "none"

\* C9: entering the scope calls connect() and fails when connect() fails;
\* leaving it always calls disconnect(), after which the session is
\* Disconnected.
C9_ScopeExitDisconnects ==
    /\ last.op = "enter" =>
         /\ last.raised = "RuntimeError" <=> last.cause # "none"
         /\ inScope <=> last.raised = "none"
    /\ last.op = "exit" => (~inScope /\ ~connected)

\* C10: upload closes the file-transfer channel it opened on every exit
\* path, whether it returns or raises.
C10_UploadClosesChannel ==
    last.op = "upload" => sftp # "open"

\* C11: a failure of upload (opening the channel or streaming the file) is
\* raised to the caller, upload returns a success value only when the
\* transfer succeeded, and upload on a session that is not Connected fails
\* without opening a channel.
C11_UploadErrorsPropagate ==
    last.op = "upload" =>
        /\ last.cause # "none" => last.raised # "none" /\ last.ret = "none"
        /\ last.ret # "none" => last.ret = "True" /\ sftp = "closed"
        /\ ~SessionConnected => last.raised # "none" /\ sftp = "none"

\* C11 without its last part: failures are raised and a value is returned
\* only for a transfer that succeeded.
C11_FailuresRaised ==
    last.op = "upload" =>
        /\ last.cause # "none" => last.raised # "none" /\ last.ret = "none"
        /\ last.ret # "none" => last.ret = "True" /\ sftp = "closed"

Connecting == last.op \in {"connect", "enter"}

\* C12: connect() with neither a password nor a key file fails with the
\* configuration error before the transport's connect is called, and the
\* session is not Connected afterwards.
C12_NoCredentialNoSocket ==
    (Connecting /\ ~password /\ ~key_filename) =>
        /\ last.ret \in {"False", "none"}
        /\ last.cause = "ValueError"
        /\ last.io = 0
        /\ ~connected /\ ~transportOpen /\ ~SessionConnected

C12_Witness ==
    /\ last.op = "connect" /\ ~password /\ ~key_filename
    /\ nclients = 2 /\ last.ret = "False"

\* C13: with a key file present (with or without a password) only the key
\* file is passed to the transport's connect; with a password and no key file
\* only the password is.
C13_CredentialPrecedence ==
    (Connecting /\ last.io = 1) =>
        /\ key_filename => last.auth = "key_filename"
        /\ (~key_filename /\ password) => last.auth = "password"

C13_Witness ==
    /\ last.op = "connect" /\ last.io = 1
    /\ key_filename /\ password /\ last.auth = "key_filename"

\* C14: test_connectivity() never raises, returns true exactly when the
\* canary command completed with exit code 0 and the marker in its stdout,
\* and false on every error path (not connected, transport failure, timeout,
\* internal failure).
C14_ConnectivityProbe ==
    last.op = "test_connectivity" =>
        /\ last.raised = "none"
        /\ last.ret \in {"True", "False"}
        /\ last.ret = "True" <=>
             /\ call.entered /\ call.fault = "none"
             /\ arg.env.status = 0
             /\ \E i \in 1..Len(arg.env.out) : arg.env.out[i] = Marker
        /\ (~call.entered \/ call.fault # "none") => last.ret = "False"

C14_Witness ==
    /\ last.op = "test_connectivity" /\ last.ret = "True"
    /\ arg.env.out = <<"bad", Marker>>
    /\ SumSeq(arg.env.gaps) = 0

C14_WitnessTimeout ==
    /\ last.op = "test_connectivity" /\ last.ret = "False"
    /\ call.fault = "socket.timeout" /\ result.return_code = -2

\* C15: file_exists(path) returns true exactly when the presence check
\* yields remote exit code 0; every nonzero exit code and every sentinel
\* (-1, -2, -3) yields false.
C15_FileExists ==
    (last.op = "file_exists" /\ last.raised = "none") =>
        /\ last.ret \in {"True", "False"}
        /\ last.ret = "True" <=> (call.fault = "none" /\ arg.env.status = 0)
        /\ result.return_code \in {-1, -2, -3} => last.ret = "False"
        /\ (call.fault = "none" /\ arg.env.status > 0) => last.ret = "False"

C15_Witness ==
    /\ last.op = "file_exists" /\ last.ret = "False"
    /\ call.fault = "none" /\ arg.env.status = 1

C18_PreviewAlwaysLogged ==
    (Executed /\ SessionConnected) => PreviewLogged

\* What the code does: the preview is logged on normal completion only.
C18_PreviewOnNormalPath ==
    Executed => (PreviewLogged <=> call.fault = "none")

\* C17: the mapping get_system_info() returns has exactly the eight keys
\* hostname, kernel, os, architecture, uptime, whoami, id, pwd; each key was
\* resolved by exactly one execute() call, and its value is "Unknown" when
\* that call's exit code is nonzero (remote nonzero or sentinel) and the
\* stripped stdout otherwise.
C17_SystemInfo ==
    (last.op = "get_system_info" /\ last.raised = "none") =>
        /\ DOMAIN info = {"hostname", "kernel", "os", "architecture",
                          "uptime", "whoami", "id", "pwd"}
        /\ Cardinality(DOMAIN info) = 8
        /\ last.io = 8 /\ Len(results) = 8
        /\ \A i \in 1..8 :
             /\ results[i].command = InfoCommands[InfoKeys[i]]
             /\ results[i].return_code # 0 => info[InfoKeys[i]] = <<"Unknown">>
             /\ results[i].return_code = 0 =>
                  info[InfoKeys[i]] = Strip(results[i].stdout)

C17_Witness ==
    /\ last.op = "get_system_info" /\ last.raised = "none"
    /\ results[1].return_code = 0 /\ info["hostname"] = <<"a", " ", "a">>
    /\ results[2].return_code = 1 /\ info["kernel"] = <<"Unknown">>
    /\ results[3].return_code = TIMEOUT_ERROR /\ info["os"] = <<"Unknown">>
    /\ results[8].return_code = 0 /\ info["pwd"] = <<"a", " ", "a">>

\* C19: after a disconnect() whose close() succeeded no transport opened by
\* this manager is open, neither the one of self.client nor one opened
\* through an earlier connect().
C19_NoTransportLeft ==
    (last.op = "disconnect" /\ last.io = 1 /\ last.cause = "none") =>
        ~transportOpen /\ ~orphaned

\* The transport of the client that disconnect() closed is closed.
C19_OwnTransportClosed ==
    (last.op = "disconnect" /\ last.io = 1 /\ last.cause = "none") =>
        ~transportOpen

\* C20: execute_command, file_exists, get_system_info, test_connectivity and
\* upload_file leave self.connected and self.client as they found them, on
\* every outcome path.
C20_ConnectionStateFramed ==
    [][last'.op \in {"execute", "file_exists", "get_system_info",
                     "test_connectivity", "upload"}
         => connected' = connected /\ client' = client]_vars

\* A call that ended with the transport-failure sentinel on a session that
\* still reports connected.
C20_Witness ==
    /\ last.op = "execute" /\ result.return_code = SSH_ERROR
    /\ connected /\ client # 0
====
